---------------------------- MODULE Spec2Model ----------------------------
(***************************************************************************)
(* A model of takeout_fixer: the sidecar normalizer (JSONParser.parse),    *)
(* the metadata merge policy (Metadata.merge_with), and the export scan    *)
(* (TakeoutParser) followed by the consumer loop of cli.main.              *)
(*                                                                         *)
(* Conventions.  A Python Optional value is a sequence of length at most   *)
(* one: None is <<>> and a present value v is <<v>>.  A Python str is a    *)
(* TLA+ string, except where the program parses it (the timestamp text),   *)
(* where it is a sequence of one-character strings.  A JSON number is an   *)
(* integer.  A file name is the sequence of its dot-separated components:  *)
(* "a.jpg.json" is <<"a", "jpg", "json">>.                                 *)
(***************************************************************************)
EXTENDS Integers, Sequences, FiniteSets, TLC

VARIABLES
    fs,                 \* the export tree on disk (never written by the program)
    pc,                 \* position of cli.main
    google_photos_dir,  \* TakeoutParser.google_photos_dir: index into fs.top, 0 before construction
    error,              \* the exception that aborted cli.main, "" when none
    all_media,          \* the media set returned by TakeoutParser.parse
    stats,              \* the statistics returned by TakeoutParser.parse
    idx,                \* cli.main: number of entries of the media set already visited
    sidecar,            \* the path handed to JSONParser.parse on its own
    parsed,             \* what that call returned
    recs,               \* the heap of Metadata objects, by identity
    lastMerge,          \* the last merge_with call: its arguments, its result, the heap before it
    previous,           \* what an earlier run of cli.main on the same tree ended with
    lastSort,           \* the sort_by_date call made on the media set: its argument, the list before
    media_file,         \* a MediaFile object on its own, None before its construction
    lastCall,           \* the last call on that object: its arguments, its exception, the object before
    gpsArgs,            \* the arguments of a GPSCoordinates construction on its own
    gpsMade,            \* what that construction gave
    exif                \* what to_exif_dict gave for a record that holds the coordinates

vars == <<fs, pc, google_photos_dir, error, all_media, stats, idx, sidecar, parsed, recs, lastMerge,
          previous, lastSort, media_file, lastCall, gpsArgs, gpsMade, exif>>

scanVars == <<fs, pc, google_photos_dir, error, all_media, stats, idx, previous, lastSort>>
parseVars == <<sidecar, parsed>>
mergeVars == <<recs, lastMerge>>
entryVars == <<media_file, lastCall>>
gpsVars == <<gpsArgs, gpsMade, exif>>

---------------------------------------------------------------------------
(* Optional values and exceptions *)

None == <<>>

Some(v) == <<v>>

Ok(v) == [exc |-> "", val |-> <<v>>]

Raise(e) == [exc |-> e, val |-> <<>>]

---------------------------------------------------------------------------
(* Python built-ins the normalizer relies on *)

Digits == {"0", "1", "2", "3", "4", "5", "6", "7", "8", "9"}

DigitVal(c) ==
    CASE c = "0" -> 0 [] c = "1" -> 1 [] c = "2" -> 2 [] c = "3" -> 3 [] c = "4" -> 4
      [] c = "5" -> 5 [] c = "6" -> 6 [] c = "7" -> 7 [] c = "8" -> 8 [] c = "9" -> 9

RECURSIVE DecimalValue(_)
DecimalValue(s) ==
    IF s = <<>> THEN 0
    ELSE 10 * DecimalValue(SubSeq(s, 1, Len(s) - 1)) + DigitVal(s[Len(s)])

\* A JSON scalar read as the timestamp: a number n, or a string of characters.
JNum(n) == [type |-> "num", n |-> n, chars |-> <<>>]

JStr(s) == [type |-> "str", n |-> 0, chars |-> s]

\* bool(x): a number is true unless it is zero, a string unless it is empty.
Truthy(x) == IF x.type = "num" THEN x.n # 0 ELSE x.chars # <<>>

\* int(x): a number is itself; a string must be a non-empty run of digits.
int(x) ==
    IF x.type = "num" THEN Ok(x.n)
    ELSE IF x.chars # <<>> /\ \A i \in 1..Len(x.chars) : x.chars[i] \in Digits
         THEN Ok(DecimalValue(x.chars))
         ELSE Raise("ValueError")

\* datetime.fromtimestamp(n, timezone.utc): the instant n seconds after the epoch.
fromtimestamp(n) == [epoch |-> n, tz |-> "UTC"]

---------------------------------------------------------------------------
(* models/metadata.py *)

\* The mutated validation: the bounds themselves are rejected.
GPSCoordinates_exclusive(latitude, longitude, altitude) ==
    IF latitude = None THEN Raise("TypeError")
    ELSE IF ~(-90 < latitude[1] /\ latitude[1] < 90) THEN Raise("ValueError")
    ELSE IF longitude = None THEN Raise("TypeError")
    ELSE IF ~(-180 < longitude[1] /\ longitude[1] < 180) THEN Raise("ValueError")
    ELSE Ok([latitude |-> latitude[1], longitude |-> longitude[1], altitude |-> altitude])

\* GPSCoordinates(latitude, longitude, altitude) with __post_init__; the
\* arguments are Optional numbers, as the normalizer passes what .get returned.
GPSCoordinates(latitude, longitude, altitude) ==
    IF latitude = None THEN Raise("TypeError")
    ELSE IF ~(-90 <= latitude[1] /\ latitude[1] <= 90) THEN Raise("ValueError")
    ELSE IF longitude = None THEN Raise("TypeError")
    ELSE IF ~(-180 <= longitude[1] /\ longitude[1] <= 180) THEN Raise("ValueError")
    ELSE Ok([latitude |-> latitude[1], longitude |-> longitude[1], altitude |-> altitude])

\* The mutated reference: latitude 0 counts as south.
latitude_ref_strict(g) == IF g.latitude > 0 THEN "N" ELSE "S"

\* gps.<field> = value: the dataclass is not frozen, the assignment is a plain
\* attribute write and __post_init__ does not run again.
GPSCoordinates_setattr(g, field, value) == [g EXCEPT ![field] = value]

\* GPSCoordinates.latitude_ref
latitude_ref(g) == IF g.latitude >= 0 THEN "N" ELSE "S"

\* GPSCoordinates.longitude_ref
longitude_ref(g) == IF g.longitude >= 0 THEN "E" ELSE "W"

\* abs() on a number
abs(x) == IF x < 0 THEN -x ELSE x

\* GPSCoordinates.to_dict
to_dict(g) ==
    [latitude      |-> abs(g.latitude),
     longitude     |-> abs(g.longitude),
     latitude_ref  |-> latitude_ref(g),
     longitude_ref |-> longitude_ref(g),
     altitude      |-> g.altitude]

\* Metadata.to_exif_dict, its GPS keys (lines 171-179): the dict, for a record
\* as built by Metadata below; a GPSCoordinates object is never false.
to_exif_dict_gps(metadata) ==
    IF metadata.gps_coordinates = None THEN <<>>
    ELSE LET gps_dict == to_dict(metadata.gps_coordinates[1])
             fixed == [GPSLatitude     |-> gps_dict.latitude,
                       GPSLongitude    |-> gps_dict.longitude,
                       GPSLatitudeRef  |-> gps_dict.latitude_ref,
                       GPSLongitudeRef |-> gps_dict.longitude_ref]
         IN  IF gps_dict.altitude # None
             THEN fixed @@ [GPSAltitude |-> gps_dict.altitude[1]]
             ELSE fixed

Metadata(datetime_original, gps_coordinates, description, title, camera_make, camera_model) ==
    [datetime_original |-> datetime_original,
     gps_coordinates   |-> gps_coordinates,
     description       |-> description,
     title             |-> title,
     camera_make       |-> camera_make,
     camera_model      |-> camera_model]

MetadataFields ==
    {"datetime_original", "gps_coordinates", "description", "title", "camera_make", "camera_model"}

\* Metadata.is_valid: any() over four of the fields; the camera make and the
\* camera model are not among them.
is_valid(metadata) ==
    \/ metadata.datetime_original # None
    \/ metadata.gps_coordinates # None
    \/ metadata.description # None
    \/ metadata.title # None

---------------------------------------------------------------------------
(* parsers/json_parser.py *)

\* What a path names: nothing, a directory, or a regular file with a content.
\* A content is unreadable, not JSON, JSON that is no object, or a JSON object.
NoContent == [kind |-> "none", obj |-> <<>>]

JsonObject(title, description, photoTakenTime, geoData) ==
    [title |-> title, description |-> description,
     photoTakenTime |-> photoTakenTime, geoData |-> geoData]

ObjectContent(o) == [kind |-> "object", obj |-> <<o>>]

Node(kind, content) == [kind |-> kind, content |-> content]

\* The body of the try block, lines 38-59, on the decoded object js.
ParseObject(js) ==
    LET title == js.title
        ts == IF js.photoTakenTime = None THEN None ELSE js.photoTakenTime[1].timestamp
        useTs == ts # None /\ Truthy(ts[1])
        seconds == IF useTs THEN int(ts[1]) ELSE Ok(0)
        datetime_original == IF useTs /\ seconds.exc = ""
                             THEN Some(fromtimestamp(seconds.val[1])) ELSE None
        lat == IF js.geoData = None THEN None ELSE js.geoData[1].latitude
        longitude == IF js.geoData = None THEN None ELSE js.geoData[1].longitude
        altitude == IF js.geoData = None THEN None ELSE js.geoData[1].altitude
        build == lat # Some(0) /\ longitude # Some(0)
        made == IF build THEN GPSCoordinates(lat, longitude, altitude) ELSE Ok(0)
        gps == IF build /\ made.exc = "" THEN made.val ELSE None
        desc == js.description
    IN  IF seconds.exc # "" THEN Raise(seconds.exc)
        ELSE IF made.exc # "" THEN Raise(made.exc)
        ELSE Ok(Some(Metadata(datetime_original, gps, desc, title, None, None)))

\* The try block, lines 35-59: open, json.load, and the extraction.
TryBlock(node) ==
    CASE node.content.kind = "unreadable" -> Raise("PermissionError")
      [] node.content.kind = "malformed"  -> Raise("JSONDecodeError")
      [] node.content.kind = "nonobject"  -> Raise("AttributeError")
      [] OTHER -> ParseObject(node.content.obj[1])

\* The mutated parse: no except clause, a failure of the try block propagates.
JSONParser_parse_uncaught(node) ==
    IF node.kind = "file" THEN TryBlock(node) ELSE Ok(None)

\* JSONParser.parse: what it returns (a Metadata record, or None after any
\* failure) and the exception it lets through, "" when none.
JSONParser_parse(node) ==
    IF node.kind = "file"
    THEN LET r == TryBlock(node) IN IF r.exc # "" THEN Ok(None) ELSE r
    ELSE Ok(None)

---------------------------------------------------------------------------
(* pathlib, on names held as sequences of dot-separated components *)

\* PurePath.suffix is not empty: the last dot is neither the first nor the last character.
HasSuffix(name) ==
    /\ Len(name) >= 2
    /\ name[Len(name)] # ""
    /\ ~(Len(name) = 2 /\ name[1] = "")

\* PurePath.suffix without its dot, "" when there is none.
Suffix(name) == IF HasSuffix(name) THEN name[Len(name)] ELSE ""

\* PurePath.stem
Stem(name) == IF HasSuffix(name) THEN SubSeq(name, 1, Len(name) - 1) ELSE name

\* PurePath.with_suffix("." + ext)
with_suffix(name, ext) == Stem(name) \o <<ext>>

\* str.lower on an extension
lower(c) ==
    CASE c = "JPG" -> "jpg" [] c = "JPEG" -> "jpeg" [] c = "PNG" -> "png"
      [] c = "MP4" -> "mp4" [] c = "MOV" -> "mov" [] OTHER -> c

\* str(path).endswith("." + s[1] + "." + ... + s[n]), s a sequence of components
endswith(name, s) ==
    /\ Len(name) >= Len(s) + 1
    /\ SubSeq(name, Len(name) - Len(s) + 1, Len(name)) = s

---------------------------------------------------------------------------
(* The export tree.  fs.root says what the export root path names; fs.top   *)
(* lists its children in iteration order, each with a name, a kind and,    *)
(* for a directory, its children; a child of the photos directory is an    *)
(* album directory (with its files in iteration order) or a stray file.    *)

\* An entry of an album: st_mtime is its modification time, in seconds after the epoch.
File(name, kind, content, st_mtime) ==
    [name |-> name, kind |-> kind, content |-> content, st_mtime |-> st_mtime]

Dir(name, kind, children) == [name |-> name, kind |-> kind, children |-> children]

\* What the name names inside a directory listing: Node("none", ...) when nothing does.
NodeAt(files, name) ==
    IF \E i \in 1..Len(files) : files[i].name = name
    THEN LET i == CHOOSE j \in 1..Len(files) : files[j].name = name
         IN  Node(files[i].kind, files[i].content)
    ELSE Node("none", NoContent)

\* Path.exists() for a name inside a directory listing
Exists(files, name) == NodeAt(files, name).kind # "none"

\* Path.stat().st_mtime for a name that exists inside a directory listing
stat_st_mtime(files, name) ==
    LET i == CHOOSE j \in 1..Len(files) : files[j].name = name IN files[i].st_mtime

\* The listing of directory dirname inside a listing of directories, <<>> when there is none.
ChildrenOf(dirs, dirname) ==
    IF \E i \in 1..Len(dirs) : dirs[i].name = dirname /\ dirs[i].kind = "dir"
    THEN LET i == CHOOSE j \in 1..Len(dirs) : dirs[j].name = dirname /\ dirs[j].kind = "dir"
         IN  dirs[i].children
    ELSE <<>>

---------------------------------------------------------------------------
(* models/media_file.py *)

PHOTO_EXTENSIONS == {"jpg", "jpeg", "png", "gif", "heic", "heif", "webp", "bmp", "tiff"}

VIDEO_EXTENSIONS == {"mp4", "mov", "avi", "mkv", "webm", "m4v", "3gp", "wmv"}

\* MediaFile.extension
extension(name) == lower(Suffix(name))

\* The mutated support check: text files pass it too.
is_supported_media_or_text(name) ==
    extension(name) \in (PHOTO_EXTENSIONS \cup VIDEO_EXTENSIONS \cup {"txt"})

\* MediaFile.is_supported_media
is_supported_media(name) == extension(name) \in (PHOTO_EXTENSIONS \cup VIDEO_EXTENSIONS)

\* MediaFile.media_type
media_type(name) ==
    IF extension(name) \in PHOTO_EXTENSIONS THEN "photo"
    ELSE IF extension(name) \in VIDEO_EXTENSIONS THEN "video"
    ELSE "unknown"

\* A path inside the photos directory: the album and the file name.
Path(album, name) == [album |-> album, name |-> name]

\* The mutated constructor: a path that exists is not required to be a regular file.
MediaFile_of_any_node(files, album, name, json_path) ==
    IF ~Exists(files, name) THEN Raise("FileNotFoundError")
    ELSE IF ~is_supported_media(name) THEN Raise("ValueError")
    ELSE Ok([path |-> Path(album, name), json_path |-> json_path, metadata |-> None])

\* MediaFile(path, json_path): the entry, or the exception of the constructor.
\* json_path is stored as given (a Path is never false); only path is validated.
MediaFile(files, album, name, json_path) ==
    IF ~Exists(files, name) THEN Raise("FileNotFoundError")
    ELSE IF NodeAt(files, name).kind # "file" THEN Raise("ValueError")
    ELSE IF ~is_supported_media(name) THEN Raise("ValueError")
    ELSE Ok([path |-> Path(album, name), json_path |-> json_path, metadata |-> None])

\* The json_path setter: the entry with the path set, or the exception.
set_json_path(files, entry, value) ==
    IF value # None /\ ~Exists(files, value[1].name) THEN Raise("FileNotFoundError")
    ELSE Ok([entry EXCEPT !.json_path = value])

\* The metadata setter; a value is None or a Metadata object, or something else.
set_metadata(entry, value) ==
    IF value # None /\ "datetime_original" \notin DOMAIN value[1] THEN Raise("TypeError")
    ELSE Ok([entry EXCEPT !.metadata = value])

\* MediaFile.has_json_metadata, albums being the listing of the photos directory
has_json_metadata(albums, entry) ==
    /\ entry.json_path # None
    /\ Exists(ChildrenOf(albums, entry.json_path[1].album), entry.json_path[1].name)

\* MediaFile.file_modified_time: datetime.fromtimestamp(st_mtime), a local time
file_modified_time(files, entry) ==
    [epoch |-> stat_st_mtime(files, entry.path.name), tz |-> "local"]

\* The mutated effective timestamp: the metadata record is not consulted.
get_effective_datetime_of_file_only(files, entry) == file_modified_time(files, entry)

\* MediaFile.get_effective_datetime, files being the listing of the entry's
\* directory; a Metadata object and a datetime are never false.
get_effective_datetime(files, entry) ==
    IF entry.metadata # None /\ entry.metadata[1].datetime_original # None
    THEN entry.metadata[1].datetime_original[1]
    ELSE file_modified_time(files, entry)

\* MediaFile.has_metadata
has_metadata(entry) == entry.metadata # None /\ is_valid(entry.metadata[1])

is_photo(entry) == media_type(entry.path.name) = "photo"

is_video(entry) == media_type(entry.path.name) = "video"

---------------------------------------------------------------------------
(* parsers/takeout_parser.py *)

JSON_SUFFIXES ==
    << <<"json">>,
       <<"supplemental-metadata", "json">>,
       <<"jpg", "json">>,
       <<"png", "json">>,
       <<"mp4", "json">>,
       <<"supplemental-met", "json">>,
       <<"supplemental-metad", "json">> >>

IGNORED_FILES ==
    { <<"metadata", "json">>, <<"Metadata", "json">>,
      <<"print-subscriptions", "json">>, <<"shared_album_comments", "json">> }

possible_names == <<"Google Photos", "Google Foto", "Photos">>

\* The mutated candidate order: the two fallback patterns first.
FallbackFirstCandidates(name) ==
    <<with_suffix(name, "json"), Stem(name) \o <<"json">> >>
        \o [i \in 1..Len(JSON_SUFFIXES) |-> name \o JSON_SUFFIXES[i]]

\* The candidates of _find_json_for_media in the order it tries them.
SidecarCandidates(name) ==
    [i \in 1..Len(JSON_SUFFIXES) |-> name \o JSON_SUFFIXES[i]]
        \o <<with_suffix(name, "json"), Stem(name) \o <<"json">> >>

\* _find_json_for_media: the first candidate that exists in the media file's directory.
find_json_for_media(files, name) ==
    LET cands == SidecarCandidates(name)
        hits == {i \in 1..Len(cands) : Exists(files, cands[i])}
    IN  IF hits = {} THEN None
        ELSE Some(cands[CHOOSE i \in hits : \A j \in hits : i <= j])

\* The mutated search: the first entry of the root, in iteration order, that is
\* a directory with one of the names.
find_google_photos_dir_in_listing_order(top) ==
    LET hits == {i \in 1..Len(top) :
                    /\ top[i].kind = "dir"
                    /\ \E k \in 1..Len(possible_names) : top[i].name = possible_names[k]}
        dirsOnly == SelectSeq(top, LAMBDA d : d.kind = "dir")
    IN  IF hits # {}
        THEN [exc |-> "", dir |-> CHOOSE i \in hits : \A j \in hits : i <= j, available |-> <<>>]
        ELSE [exc |-> "ValueError", dir |-> 0,
              available |-> [i \in 1..Len(dirsOnly) |-> dirsOnly[i].name]]

\* _find_google_photos_dir: the index in top of the photos directory, or the
\* ValueError with the names of the directories found.
find_google_photos_dir(top) ==
    LET isDir(n) == \E i \in 1..Len(top) : top[i].name = n /\ top[i].kind = "dir"
        hits == {k \in 1..Len(possible_names) : isDir(possible_names[k])}
        first == CHOOSE k \in hits : \A j \in hits : k <= j
        dirsOnly == SelectSeq(top, LAMBDA d : d.kind = "dir")
    IN  IF hits # {}
        THEN [exc |-> "", dir |-> CHOOSE i \in 1..Len(top) :
                                     top[i].name = possible_names[first] /\ top[i].kind = "dir",
              available |-> <<>>]
        ELSE [exc |-> "ValueError", dir |-> 0,
              available |-> [i \in 1..Len(dirsOnly) |-> dirsOnly[i].name]]

\* TakeoutParser.__init__
TakeoutParser(tree) ==
    IF tree.root = "none" THEN [exc |-> "FileNotFoundError", dir |-> 0, available |-> <<>>]
    ELSE IF tree.root # "dir" THEN [exc |-> "ValueError", dir |-> 0, available |-> <<>>]
    ELSE find_google_photos_dir(tree.top)

\* The mutated enumeration: on a second run the albums come in the opposite order.
get_album_folders_unstable(children) ==
    LET dirs == SelectSeq(children, LAMBDA d : d.kind = "dir")
    IN  IF previous = None THEN dirs ELSE [i \in 1..Len(dirs) |-> dirs[Len(dirs) + 1 - i]]

\* get_album_folders: the directories directly under the photos directory
get_album_folders(children) == SelectSeq(children, LAMBDA d : d.kind = "dir")

\* The mutated loop body: no except clause, the ValueError of the constructor
\* propagates.
ScanFile_uncaught(files, album, file, collection) ==
    IF file.kind # "file" THEN Ok(collection)
    ELSE IF file.name \in IGNORED_FILES THEN Ok(collection)
    ELSE IF \E k \in 1..Len(JSON_SUFFIXES) : endswith(file.name, JSON_SUFFIXES[k]) THEN Ok(collection)
    ELSE LET made == MediaFile(files, album, file.name, None)
         IN  IF made.exc # "" THEN Raise(made.exc)
             ELSE LET json_path == find_json_for_media(files, file.name)
                      withJson == IF json_path # None
                                  THEN set_json_path(files, made.val[1],
                                                     Some(Path(album, json_path[1])))
                                  ELSE made
                  IN  IF withJson.exc # "" THEN Raise(withJson.exc)
                      ELSE Ok(Append(collection, withJson.val[1]))

\* The end of the try block for an operation that gave an entry or raised.
AddOrSkip(collection, made) ==
    IF made.exc = "ValueError" THEN Ok(collection)
    ELSE IF made.exc # "" THEN Raise(made.exc)
    ELSE Ok(Append(collection, made.val[1]))

\* Lines 192-198: the sidecar path is set when the resolver found one, and
\* the entry is added; the ValueError of line 200 is the only one caught.
AttachAndAdd(files, album, collection, media_file_made, json_path) ==
    IF json_path = None THEN Ok(Append(collection, media_file_made))
    ELSE AddOrSkip(collection,
                   set_json_path(files, media_file_made, Some(Path(album, json_path[1]))))

\* Lines 187-203 for what the constructor gave.
TryMediaFile(files, album, name, collection, made) ==
    IF made.exc = "ValueError" THEN Ok(collection)
    ELSE IF made.exc # "" THEN Raise(made.exc)
    ELSE AttachAndAdd(files, album, collection, made.val[1], find_json_for_media(files, name))

\* One iteration of the loop of scan_album, on the collection built so far:
\* the collection after it, or the exception that leaves the loop.
ScanFile(files, album, file, collection) ==
    IF file.kind # "file" THEN Ok(collection)
    ELSE IF file.name \in IGNORED_FILES THEN Ok(collection)
    ELSE IF \E k \in 1..Len(JSON_SUFFIXES) : endswith(file.name, JSON_SUFFIXES[k]) THEN Ok(collection)
    ELSE TryMediaFile(files, album, file.name, collection,
                      MediaFile(files, album, file.name, None))

RECURSIVE ScanFiles(_, _, _, _)
\* The loop goes on after an iteration unless the iteration raised.
ScanNext(files, album, n, r) ==
    IF r.exc # "" THEN r ELSE ScanFiles(files, album, n + 1, r.val[1])

ScanFiles(files, album, n, collection) ==
    IF n > Len(files) THEN Ok(collection)
    ELSE ScanNext(files, album, n, ScanFile(files, album, files[n], collection))

\* scan_album: the collection, or the exception it lets through
scan_album(album) == ScanFiles(album.children, album.name, 1, <<>>)

get_with_json(albums, collection) ==
    SelectSeq(collection, LAMBDA e : has_json_metadata(albums, e))

get_without_json(albums, collection) ==
    SelectSeq(collection, LAMBDA e : ~has_json_metadata(albums, e))

get_photos(collection) == SelectSeq(collection, is_photo)

get_videos(collection) == SelectSeq(collection, is_video)

\* stats['albums'][album_name] = value: a dict as its items in insertion order
DictSet(items, key, value) ==
    IF \E i \in 1..Len(items) : items[i].key = key
    THEN [i \in 1..Len(items) |->
             IF items[i].key = key THEN [key |-> key, value |-> value] ELSE items[i]]
    ELSE Append(items, [key |-> key, value |-> value])

\* The mutated loop body: the album's entries are put in front of those
\* accumulated so far.
ParseAlbum_prepending(albums, album, acc) ==
    LET scanned == scan_album(album)
        album_collection == scanned.val[1]
    IN  IF acc.exc # "" THEN acc
        ELSE IF scanned.exc # "" THEN [acc EXCEPT !.exc = scanned.exc]
        ELSE [exc |-> "",
              all_media |-> album_collection \o acc.all_media,
              albums_scanned |-> acc.albums_scanned + 1,
              albums |-> DictSet(acc.albums, album.name,
                            [total_files  |-> Len(album_collection),
                             with_json    |-> Len(get_with_json(albums, album_collection)),
                             without_json |-> Len(get_without_json(albums, album_collection)),
                             photos       |-> Len(get_photos(album_collection)),
                             videos       |-> Len(get_videos(album_collection))])]

\* Lines 243-247: the counts of one album, from its collection.
AlbumCounts(albums, album_collection) ==
    [total_files  |-> Len(album_collection),
     with_json    |-> Len(get_with_json(albums, album_collection)),
     without_json |-> Len(get_without_json(albums, album_collection)),
     photos       |-> Len(get_photos(album_collection)),
     videos       |-> Len(get_videos(album_collection))]

\* Lines 238-248: the album's collection goes into what is accumulated.
Accumulate(albums, album_name, acc, album_collection) ==
    [exc |-> "",
     all_media |-> acc.all_media \o album_collection,
     albums_scanned |-> acc.albums_scanned + 1,
     albums |-> DictSet(acc.albums, album_name, AlbumCounts(albums, album_collection))]

\* Lines 235-248 for what scan_album gave.
AfterScan(albums, album_name, acc, scanned) ==
    IF scanned.exc # "" THEN [acc EXCEPT !.exc = scanned.exc]
    ELSE Accumulate(albums, album_name, acc, scanned.val[1])

\* One iteration of the loop of parse, on what it has accumulated so far; an
\* exception of scan_album ends parse.
ParseAlbum(albums, album, acc) ==
    IF acc.exc # "" THEN acc
    ELSE AfterScan(albums, album.name, acc, scan_album(album))

RECURSIVE ParseAlbums(_, _, _, _)
ParseAlbums(albums, folders, n, acc) ==
    IF n > Len(folders) THEN acc
    ELSE ParseAlbums(albums, folders, n + 1, ParseAlbum(albums, folders[n], acc))

\* Lines 254-266: the overall counts and what parse returns.
Totals(albums, acc) ==
    [exc |-> acc.exc,
     all_media |-> acc.all_media,
     stats |-> [albums_scanned     |-> acc.albums_scanned,
                files_with_json    |-> Len(get_with_json(albums, acc.all_media)),
                files_without_json |-> Len(get_without_json(albums, acc.all_media)),
                total_files        |-> Len(acc.all_media),
                albums             |-> acc.albums]]

\* TakeoutParser.parse, albums being the listing of the photos directory: the
\* media set and the statistics, or the exception it lets through.
parse(albums) ==
    Totals(albums, ParseAlbums(albums, get_album_folders(albums), 1,
                   [exc |-> "", all_media |-> <<>>, albums_scanned |-> 0, albums |-> <<>>]))

---------------------------------------------------------------------------
(* The normalizer on its own: JSONParser.parse applied to one path *)

Titles == {None, Some("Beach")}

Descriptions == {None, Some(""), Some("Sunset")}

TimestampValues ==
    {JNum(0), JNum(42), JStr(<<>>), JStr(<<"0">>), JStr(<<"4", "2">>), JStr(<<"4", "x">>)}

\* photoTakenTime: the key missing, an object without "timestamp", or with one.
PhotoTakenTimes ==
    {None, Some([timestamp |-> None])} \cup {Some([timestamp |-> Some(t)]) : t \in TimestampValues}

Latitudes == {None, Some(0), Some(45), Some(91)}

Longitudes == {None, Some(0), Some(-100), Some(-181)}

Altitudes == {None, Some(12)}

GeoDatas ==
    {None} \cup {Some([latitude |-> la, longitude |-> lo, altitude |-> al]) :
                    la \in Latitudes, lo \in Longitudes, al \in Altitudes}

JsonObjects ==
    {JsonObject(t, d, p, g) : t \in Titles, d \in Descriptions, p \in PhotoTakenTimes, g \in GeoDatas}

BrokenContents ==
    {[kind |-> "unreadable", obj |-> <<>>], [kind |-> "malformed", obj |-> <<>>],
     [kind |-> "nonobject", obj |-> <<>>]}

SidecarNodes ==
    {Node("none", NoContent), Node("dir", NoContent)}
        \cup {Node("file", c) : c \in BrokenContents}
        \cup {Node("file", ObjectContent(o)) : o \in JsonObjects}

NotParsed == [done |-> FALSE, exc |-> "", result |-> None]

NoError == [exc |-> "", available |-> <<>>]

IdleScan ==
    /\ fs = [root |-> "none", top |-> <<>>]
    /\ pc = "idle"
    /\ google_photos_dir = 0
    /\ error = NoError
    /\ all_media = <<>>
    /\ stats = <<>>
    /\ idx = 0
    /\ previous = None
    /\ lastSort = None

IdleParse ==
    /\ sidecar = Node("none", NoContent)
    /\ parsed = NotParsed

IdleMerge ==
    /\ recs = <<>>
    /\ lastMerge = [called |-> FALSE, base |-> 0, other |-> 0, prefer_other |-> FALSE,
                    result |-> 0, before |-> <<>>]

NoCall == [op |-> "", exc |-> "", before |-> <<>>, value |-> <<>>]

IdleEntry ==
    /\ media_file = None
    /\ lastCall = NoCall

NoGps == [done |-> FALSE, exc |-> "", val |-> <<>>, writes |-> 0]

IdleGps ==
    /\ gpsArgs = [latitude |-> 0, longitude |-> 0, altitude |-> None]
    /\ gpsMade = NoGps
    /\ exif = None

InitParse ==
    /\ sidecar \in SidecarNodes
    /\ parsed = NotParsed
    /\ IdleScan
    /\ IdleMerge
    /\ IdleEntry
    /\ IdleGps

\* jp.parse(json_path)
Normalize ==
    /\ ~parsed.done
    /\ LET r == JSONParser_parse(sidecar)
       IN  parsed' = [done |-> TRUE, exc |-> r.exc,
                      result |-> IF r.exc = "" THEN r.val[1] ELSE None]
    /\ UNCHANGED <<sidecar, scanVars, mergeVars, entryVars, gpsVars>>

NextParse == Normalize

SpecParse == InitParse /\ [][NextParse]_vars

---------------------------------------------------------------------------
(* Claims about the normalizer, checked under SpecParse *)

TheObject == sidecar.content.obj[1]

IsObjectSidecar == sidecar.kind = "file" /\ sidecar.content.kind = "object"

TheTimestamp ==
    IF TheObject.photoTakenTime = None THEN None ELSE TheObject.photoTakenTime[1].timestamp

\* The timestamp field is missing, or holds epoch seconds as a number or as digits.
TimestampWellFormed == TheTimestamp = None \/ int(TheTimestamp[1]).exc = ""

\* The instant the sidecar states, if it states one.
StatedInstant ==
    IF TheTimestamp = None THEN None ELSE Some(fromtimestamp(int(TheTimestamp[1]).val[1]))

InRange(lat, lon) ==
    /\ lat # None /\ -90 <= lat[1] /\ lat[1] <= 90
    /\ lon # None /\ -180 <= lon[1] /\ lon[1] <= 180

\* geoData is missing, or carries a latitude and a longitude that are in range.
GeoWellFormed ==
    \/ TheObject.geoData = None
    \/ InRange(TheObject.geoData[1].latitude, TheObject.geoData[1].longitude)

BothZero ==
    /\ TheObject.geoData # None
    /\ TheObject.geoData[1].latitude = Some(0)
    /\ TheObject.geoData[1].longitude = Some(0)

\* C3: a well-formed sidecar whose geoData latitude and longitude are both
\* zero yields a record (not a failure) without GPS, with or without an
\* altitude, and with title, description and timestamp taken from the sidecar.
C3_ZeroSentinelKeepsOtherFields ==
    (parsed.done /\ IsObjectSidecar /\ TimestampWellFormed /\ BothZero) =>
        /\ parsed.result # None
        /\ parsed.result[1].gps_coordinates = None
        /\ parsed.result[1].title = TheObject.title
        /\ parsed.result[1].description = TheObject.description
        /\ parsed.result[1].datetime_original = StatedInstant

\* C4: a well-formed sidecar whose latitude and longitude are in range and
\* not both zero yields a record whose GPS carries exactly that latitude,
\* longitude and altitude.
C4_GpsDroppedOnlyWhenBothZero ==
    (/\ parsed.done /\ IsObjectSidecar /\ TimestampWellFormed
     /\ TheObject.geoData # None /\ GeoWellFormed /\ ~BothZero) =>
        /\ parsed.result # None
        /\ parsed.result[1].gps_coordinates =
               Some([latitude  |-> TheObject.geoData[1].latitude[1],
                     longitude |-> TheObject.geoData[1].longitude[1],
                     altitude  |-> TheObject.geoData[1].altitude])

\* C5: a well-formed JSON object with any subset of the keys title,
\* description, photoTakenTime and geoData yields a record, in which a field
\* whose key is missing is unset and the text fields are copied unchanged.
C5_EveryFieldOptional ==
    (parsed.done /\ IsObjectSidecar /\ TimestampWellFormed /\ GeoWellFormed) =>
        /\ parsed.result # None
        /\ parsed.result[1].title = TheObject.title
        /\ parsed.result[1].description = TheObject.description
        /\ TheObject.photoTakenTime = None => parsed.result[1].datetime_original = None
        /\ TheObject.geoData = None => parsed.result[1].gps_coordinates = None

\* C6: whenever the normalizer returns a record, its timestamp is the UTC
\* instant of photoTakenTime.timestamp read as epoch seconds when the field
\* is present (as a string or a number, zero included) and unset when absent.
C6_TimestampIsStatedInstant ==
    (parsed.done /\ IsObjectSidecar /\ TimestampWellFormed /\ parsed.result # None) =>
        parsed.result[1].datetime_original = StatedInstant

---------------------------------------------------------------------------
(* models/metadata.py: Metadata.merge_with, on a heap of Metadata objects *)

\* Python's "a or b" on an Optional datetime or GPSCoordinates: an object of
\* either class is true, None is false.
OrObject(a, b) == IF a # None THEN a ELSE b

\* Python's "a or b" on an Optional str: None and the empty string are false.
OrStr(a, b) == IF a # None /\ a[1] # "" THEN a ELSE b

\* The mutated merge_with: it writes the merged fields into self and returns self.
merge_with_in_place(heap, self, other, prefer_other) ==
    LET a == heap[self]
        b == heap[other]
        merged ==
            IF prefer_other
            THEN Metadata(OrObject(b.datetime_original, a.datetime_original),
                          OrObject(b.gps_coordinates, a.gps_coordinates),
                          OrStr(b.description, a.description),
                          OrStr(b.title, a.title),
                          OrStr(b.camera_make, a.camera_make),
                          OrStr(b.camera_model, a.camera_model))
            ELSE Metadata(OrObject(a.datetime_original, b.datetime_original),
                          OrObject(a.gps_coordinates, b.gps_coordinates),
                          OrStr(a.description, b.description),
                          OrStr(a.title, b.title),
                          OrStr(a.camera_make, b.camera_make),
                          OrStr(a.camera_model, b.camera_model))
    IN  [heap |-> [heap EXCEPT ![self] = merged], result |-> self]

\* self.merge_with(other, prefer_other): the heap with the new object, and its identity.
merge_with(heap, self, other, prefer_other) ==
    LET a == heap[self]
        b == heap[other]
        merged ==
            IF prefer_other
            THEN Metadata(OrObject(b.datetime_original, a.datetime_original),
                          OrObject(b.gps_coordinates, a.gps_coordinates),
                          OrStr(b.description, a.description),
                          OrStr(b.title, a.title),
                          OrStr(b.camera_make, a.camera_make),
                          OrStr(b.camera_model, a.camera_model))
            ELSE Metadata(OrObject(a.datetime_original, b.datetime_original),
                          OrObject(a.gps_coordinates, b.gps_coordinates),
                          OrStr(a.description, b.description),
                          OrStr(a.title, b.title),
                          OrStr(a.camera_make, b.camera_make),
                          OrStr(a.camera_model, b.camera_model))
    IN  [heap |-> Append(heap, merged), result |-> Len(heap) + 1]

\* The heap holds at most MaxRecs Metadata objects.
MaxRecs == 3

SanFrancisco == [latitude |-> 37, longitude |-> -122, altitude |-> Some(50)]

Nairobi == [latitude |-> -1, longitude |-> 36, altitude |-> None]

\* The first object of a pair: what Metadata(...) was constructed with.
FirstRecords ==
    {Metadata(dt, g, d, t, mk, md) :
        dt \in {None, Some(fromtimestamp(1686839400))},
        g  \in {None, Some(SanFrancisco)},
        d  \in {None, Some(""), Some("Beautiful sunset")},
        t  \in {None, Some("Sunset Photo")},
        mk \in {None, Some("Apple")},
        md \in {None, Some("iPhone 14 Pro")}}

\* The second object of a pair: empty, full, and records that set a few fields.
SecondRecords ==
    { Metadata(None, None, None, None, None, None),
      Metadata(Some(fromtimestamp(0)), Some(Nairobi), Some("Updated description"),
               Some("New Title"), Some("Canon"), Some("EOS")),
      Metadata(None, None, Some("Updated description"), Some("New Title"), None, None),
      Metadata(None, None, None, Some(""), None, None),
      Metadata(Some(fromtimestamp(0)), None, None, None, None, None),
      Metadata(None, Some(Nairobi), None, None, Some("Canon"), Some("EOS")) }

InitMerge ==
    /\ \E a \in FirstRecords, b \in SecondRecords : recs = <<a, b>>
    /\ lastMerge = [called |-> FALSE, base |-> 0, other |-> 0, prefer_other |-> FALSE,
                    result |-> 0, before |-> <<>>]
    /\ IdleScan
    /\ IdleParse
    /\ IdleEntry
    /\ IdleGps

\* merged = self.merge_with(other, prefer_other)
MergeWith ==
    /\ Len(recs) < MaxRecs
    /\ \E self \in 1..Len(recs), other \in 1..Len(recs), prefer_other \in BOOLEAN :
          LET r == merge_with(recs, self, other, prefer_other)
          IN  /\ recs' = r.heap
              /\ lastMerge' = [called |-> TRUE, base |-> self, other |-> other,
                               prefer_other |-> prefer_other, result |-> r.result,
                               before |-> recs]
    /\ UNCHANGED <<scanVars, parseVars, entryVars, gpsVars>>

NextMerge == MergeWith

SpecMerge == InitMerge /\ [][NextMerge]_vars

---------------------------------------------------------------------------
(* Claims about the merge policy, checked under SpecMerge *)

\* A field is present when it is set to any value, the empty text included.
Present(v) == v # None

PresentFields(r) == {f \in MetadataFields : Present(r[f])}

\* The policy of the contract, by field.
Resolved(base, other, prefer_other) ==
    IF prefer_other /\ Present(other) THEN other
    ELSE IF Present(base) THEN base
    ELSE other

MergeBase == lastMerge.before[lastMerge.base]

MergeOther == lastMerge.before[lastMerge.other]

MergeResult == recs[lastMerge.result]

\* C8: merge returns a record in which every one of the six fields is other's
\* value if preferOther and other's value is present, else base's value if
\* present, else other's value, a field being present when it is not None.
C8_MergePolicyByPresence ==
    lastMerge.called =>
        \A f \in MetadataFields :
            MergeResult[f] = Resolved(MergeBase[f], MergeOther[f], lastMerge.prefer_other)

\* C9: for records A and B with disjoint present fields, merge(A, B, FALSE)
\* and merge(B, A, TRUE) agree on all six fields, and the result has exactly
\* the union of the present fields of A and B.
C9_DisjointMergeIsFieldUnion ==
    (/\ lastMerge.called /\ ~lastMerge.prefer_other
     /\ PresentFields(MergeBase) \cap PresentFields(MergeOther) = {}) =>
        LET swapped == merge_with(lastMerge.before, lastMerge.other, lastMerge.base, TRUE)
        IN  /\ MergeResult = swapped.heap[swapped.result]
            /\ PresentFields(MergeResult) = PresentFields(MergeBase) \cup PresentFields(MergeOther)

\* C10: merge returns a new record, distinct from both inputs, and leaves
\* every field of every existing record, base and other included, unchanged.
C10_MergeIsPure ==
    lastMerge.called =>
        /\ lastMerge.result \notin {lastMerge.base, lastMerge.other}
        /\ lastMerge.result \notin 1..Len(lastMerge.before)
        /\ \A i \in 1..Len(lastMerge.before) : recs[i] = lastMerge.before[i]

\* A merge with preferOther whose result differs from both of its inputs.
C10_Witness ==
    /\ lastMerge.called /\ lastMerge.prefer_other
    /\ lastMerge.base # lastMerge.other
    /\ MergeResult # MergeBase
    /\ MergeResult # MergeOther

---------------------------------------------------------------------------
(* cli.main: the scan of an export tree, then the consumer loop *)

\* An album listing holds at most MaxFiles entries.
MaxFiles == 4

\* The photos directory holds at most MaxAlbums album directories.
MaxAlbums == 2

Binary == [kind |-> "malformed", obj |-> <<>>]

\* {"title": "Beach", "photoTakenTime": {"timestamp": "1686839400"}}
BeachSidecar ==
    ObjectContent(JsonObject(Some("Beach"), None,
        Some([timestamp |-> Some(JStr(<<"1", "6", "8", "6", "8", "3", "9", "4", "0", "0">>))]),
        None))

\* The same with "geoData": {"latitude": 0.0, "longitude": 0.0, "altitude": 12}
ZeroGeoSidecar ==
    ObjectContent(JsonObject(Some("Beach"), None,
        Some([timestamp |-> Some(JStr(<<"1", "6", "8", "6", "8", "3", "9", "4", "0", "0">>))]),
        Some([latitude |-> Some(0), longitude |-> Some(0), altitude |-> Some(12)])))

\* {"geoData": {"latitude": 45, "longitude": -100}}: no photoTakenTime
UndatedSidecar ==
    ObjectContent(JsonObject(None, None, None,
        Some([latitude |-> Some(45), longitude |-> Some(-100), altitude |-> None])))

\* What an album may hold; at most one entry of a name is taken.
FileUniverse ==
    << File(<<"a", "jpg">>, "file", Binary, 1700000001),
       File(<<"a", "jpg", "json">>, "file", BeachSidecar, 1700000002),
       File(<<"a", "jpg", "json">>, "file", [kind |-> "malformed", obj |-> <<>>], 1700000003),
       File(<<"a", "jpg", "json">>, "file", [kind |-> "unreadable", obj |-> <<>>], 1700000004),
       File(<<"a", "jpg", "json">>, "dir", NoContent, 1700000005),
       File(<<"a", "jpg", "supplemental-metadata", "json">>, "file", ZeroGeoSidecar, 1700000006),
       File(<<"a", "json">>, "file", ZeroGeoSidecar, 1700000007),
       File(<<"a", "png">>, "file", Binary, 1700000008),
       File(<<"b", "mp4">>, "file", Binary, 1700000009),
       File(<<"b", "mp4", "json">>, "file", UndatedSidecar, 1700000010),
       File(<<"notes", "txt">>, "file", Binary, 1700000011),
       File(<<"metadata", "json">>, "file", ZeroGeoSidecar, 1700000012),
       File(<<"sub">>, "dir", NoContent, 1700000013) >>

RECURSIVE Ascending(_)
Ascending(S) ==
    IF S = {} THEN <<>>
    ELSE LET m == CHOOSE i \in S : \A j \in S : i <= j
         IN  <<FileUniverse[m]>> \o Ascending(S \ {m})

Reverse(q) == [i \in 1..Len(q) |-> q[Len(q) + 1 - i]]

\* The listings of an album: up to MaxFiles entries of distinct names, in the
\* order of FileUniverse or in the opposite order.
AlbumListings ==
    LET picks == {S \in SUBSET (1..Len(FileUniverse)) :
                     /\ Cardinality(S) <= MaxFiles
                     /\ \A i, j \in S : i # j => FileUniverse[i].name # FileUniverse[j].name}
    IN  {Ascending(S) : S \in picks} \cup {Reverse(Ascending(S)) : S \in picks}

\* The listings of the albums after the first.
FurtherListings ==
    { <<File(<<"b", "mp4">>, "file", Binary, 1700000021)>>,
      <<File(<<"a", "json">>, "file", BeachSidecar, 1700000022),
        File(<<"a", "jpg">>, "file", Binary, 1700000023)>> }

RECURSIVE TotalFiles(_)
TotalFiles(albums) ==
    IF albums = <<>> THEN 0 ELSE Len(Head(albums).children) + TotalFiles(Tail(albums))

AlbumNames == <<"Trip2023", "Family", "Archive", "Misc">>

\* The listings of the photos directory: up to MaxAlbums albums that hold up
\* to MaxFiles entries together, after an optional stray file.
PhotosListings ==
    LET candidates ==
            UNION {{[i \in 1..n |-> Dir(AlbumNames[i], "dir", IF i = 1 THEN first ELSE rest[i])] :
                        first \in AlbumListings, rest \in [2..n -> FurtherListings]} :
                   n \in 1..MaxAlbums}
        albumsOnly == {l \in candidates : TotalFiles(l) <= MaxFiles}
    IN  {<<>>} \cup albumsOnly
            \cup {<<Dir("archive_browser.html", "file", <<>>)>> \o l :
                     l \in {a \in albumsOnly : Len(a) = 1 /\ Len(a[1].children) <= 1}}

\* Export trees that TakeoutParser accepts.
GoodTrees ==
    {[root |-> "dir", top |-> <<Dir("Google Photos", "dir", ch)>>] : ch \in PhotosListings}
        \cup {[root |-> "dir",
               top |-> <<Dir("Google Foto", "file", <<>>), Dir("Drive", "dir", <<>>),
                         Dir("Photos", "dir", ch)>>] :
              ch \in {l \in PhotosListings : Len(l) = 1 /\ Len(l[1].children) <= 2}}
        \cup {[root |-> "dir",
               top |-> <<Dir("Photos", "dir",
                             <<Dir("Old", "dir", <<File(<<"a", "png">>, "file", Binary, 1700000031)>>)>>),
                         Dir("Google Photos", "dir", ch)>>] :
              ch \in {l \in PhotosListings : Len(l) = 1 /\ Len(l[1].children) <= 1}}

\* Export trees that it rejects.
BadTrees ==
    { [root |-> "none", top |-> <<>>],
      [root |-> "file", top |-> <<>>],
      [root |-> "dir", top |-> <<>>],
      [root |-> "dir", top |-> <<Dir("Drive", "dir", <<>>), Dir("Photos", "file", <<>>)>>] }

Init ==
    /\ fs \in GoodTrees \cup BadTrees
    /\ pc = "start"
    /\ google_photos_dir = 0
    /\ error = NoError
    /\ all_media = <<>>
    /\ stats = <<>>
    /\ idx = 0
    /\ previous = None
    /\ lastSort = None
    /\ IdleParse
    /\ IdleMerge
    /\ IdleEntry
    /\ IdleGps

\* The listing of the photos directory the parser settled on.
PhotosDir == fs.top[google_photos_dir].children

\* parser = TakeoutParser(p)
Construct ==
    /\ pc = "start"
    /\ LET r == TakeoutParser(fs)
       IN  IF r.exc = ""
           THEN /\ google_photos_dir' = r.dir
                /\ pc' = "constructed"
                /\ error' = error
           ELSE /\ google_photos_dir' = google_photos_dir
                /\ pc' = "failed"
                /\ error' = [exc |-> r.exc, available |-> r.available]
    /\ UNCHANGED <<fs, all_media, stats, idx, previous, lastSort, parseVars, mergeVars, entryVars, gpsVars>>

\* mediafileCollection, stats = parser.parse()
Parse ==
    /\ pc = "constructed"
    /\ LET r == parse(PhotosDir)
       IN  IF r.exc = ""
           THEN /\ all_media' = r.all_media
                /\ stats' = r.stats
                /\ pc' = "loop"
                /\ error' = error
           ELSE /\ all_media' = all_media
                /\ stats' = stats
                /\ pc' = "failed"
                /\ error' = [exc |-> r.exc, available |-> <<>>]
    /\ idx' = 0
    /\ UNCHANGED <<fs, google_photos_dir, previous, lastSort, parseVars, mergeVars, entryVars, gpsVars>>

\* One iteration of "for mfile in mediafileCollection.files"
LoopStep ==
    /\ pc = "loop"
    /\ idx < Len(all_media)
    /\ LET mfile == all_media[idx + 1]
       IN  IF has_json_metadata(PhotosDir, mfile)
           THEN LET r == JSONParser_parse(NodeAt(ChildrenOf(PhotosDir, mfile.json_path[1].album),
                                                 mfile.json_path[1].name))
                IN  IF r.exc = ""
                    THEN /\ all_media' = [all_media EXCEPT ![idx + 1].metadata = r.val[1]]
                         /\ idx' = idx + 1
                         /\ UNCHANGED <<pc, error>>
                    ELSE /\ pc' = "failed"
                         /\ error' = [exc |-> r.exc, available |-> <<>>]
                         /\ UNCHANGED <<all_media, idx>>
           ELSE /\ idx' = idx + 1
                /\ UNCHANGED <<all_media, pc, error>>
    /\ UNCHANGED <<fs, google_photos_dir, stats, previous, lastSort, parseVars, mergeVars, entryVars, gpsVars>>

\* The loop is over and main returns.
Finish ==
    /\ pc = "loop"
    /\ idx = Len(all_media)
    /\ pc' = "done"
    /\ UNCHANGED <<fs, google_photos_dir, error, all_media, stats, idx, previous, lastSort,
                   parseVars, mergeVars, entryVars, gpsVars>>

\* cli.main is run once more on the same, unchanged tree; what the first run
\* ended with is kept for comparison.
Rescan ==
    /\ pc = "done"
    /\ previous = None
    /\ previous' = Some([all_media |-> all_media, stats |-> stats])
    /\ pc' = "start"
    /\ google_photos_dir' = 0
    /\ all_media' = <<>>
    /\ stats' = <<>>
    /\ idx' = 0
    /\ UNCHANGED <<fs, error, lastSort, parseVars, mergeVars, entryVars, gpsVars>>

\* MediaFile.__lt__ on two entries whose effective timestamps are both aware
\* or both naive; albums is the listing of the photos directory.
MediaFile_lt(albums, a, b) ==
    get_effective_datetime(ChildrenOf(albums, a.path.album), a).epoch
        < get_effective_datetime(ChildrenOf(albums, b.path.album), b).epoch

\* datetime < datetime raises TypeError when one is aware and the other naive.
Comparable(albums, a, b) ==
    get_effective_datetime(ChildrenOf(albums, a.path.album), a).tz
        = get_effective_datetime(ChildrenOf(albums, b.path.album), b).tz

\* The position of the first entry that cannot be compared with the first
\* one, from position i on; 0 when there is none.
RECURSIVE FirstIncomparable(_, _, _)
FirstIncomparable(albums, files, i) ==
    IF i > Len(files) THEN 0
    ELSE IF ~Comparable(albums, files[1], files[i]) THEN i
    ELSE FirstIncomparable(albums, files, i + 1)

\* list.sort is stable and uses __lt__ only: x goes before the elements it is
\* less than, after all the others.
RECURSIVE InsertSorted(_, _, _)
InsertSorted(albums, sorted, x) ==
    IF sorted = <<>> THEN <<x>>
    ELSE IF MediaFile_lt(albums, x, sorted[Len(sorted)])
         THEN Append(InsertSorted(albums, SubSeq(sorted, 1, Len(sorted) - 1), x),
                     sorted[Len(sorted)])
         ELSE Append(sorted, x)

\* The first k entries of the list sorted, the others where they were.
RECURSIVE SortPrefix(_, _, _)
SortPrefix(albums, files, k) ==
    IF k = 0 THEN files
    ELSE InsertSorted(albums, SubSeq(SortPrefix(albums, files, k - 1), 1, k - 1), files[k])
             \o SubSeq(files, k + 1, Len(files))

\* list.sort on a list in which the entry at position bad cannot be compared
\* (0: every pair can): the sort raises when it reaches that entry, and the
\* list then holds the same entries with the first k of them sorted.
ListSort(albums, files, bad, k) ==
    IF bad = 0 THEN Ok(SortPrefix(albums, files, Len(files)))
    ELSE [exc |-> "TypeError", val |-> <<SortPrefix(albums, files, k)>>]

\* list.sort(reverse=True) reverses the list, sorts it and reverses it again,
\* also when the sort raised.
Unreversed(r) == [exc |-> r.exc, val |-> <<Reverse(r.val[1])>>]

\* MediaFileCollection.sort_by_date: self._files.sort(reverse=reverse); k says
\* how far the sort had come when a comparison raised.
sort_by_date(albums, files, reverse, k) ==
    IF reverse
    THEN Unreversed(ListSort(albums, Reverse(files),
                             FirstIncomparable(albums, Reverse(files), 2), k))
    ELSE ListSort(albums, files, FirstIncomparable(albums, files, 2), k)

\* How far a sort of the list can have come when it raises: anywhere before
\* the entry that cannot be compared.
SortProgress(albums, files) ==
    IF FirstIncomparable(albums, files, 2) = 0 THEN {0}
    ELSE 0..(FirstIncomparable(albums, files, 2) - 1)

\* mediafileCollection.sort_by_date(reverse), called on the media set that
\* main built with add, extend and the metadata attachments of its loop.
SortByDate ==
    /\ pc = "done"
    /\ \E reverse \in BOOLEAN :
          \E k \in SortProgress(PhotosDir, IF reverse THEN Reverse(all_media) ELSE all_media) :
              LET r == sort_by_date(PhotosDir, all_media, reverse, k)
              IN  /\ all_media' = r.val[1]
                  /\ error' = IF r.exc = "" THEN error ELSE [exc |-> r.exc, available |-> <<>>]
                  /\ lastSort' = Some([reverse |-> reverse, before |-> all_media])
    /\ pc' = "sorted"
    /\ UNCHANGED <<fs, google_photos_dir, stats, idx, previous,
                   parseVars, mergeVars, entryVars, gpsVars>>

Next == Construct \/ Parse \/ LoopStep \/ Finish \/ Rescan \/ SortByDate

Spec == Init /\ [][Next]_vars

---------------------------------------------------------------------------
(* Claims about the scan and the consumer loop, checked under Spec *)

Scanned == pc \in {"loop", "done"}

\* The listing of the directory an entry lies in.
ListingOf(entry) == ChildrenOf(PhotosDir, entry.path.album)

\* What the sidecar path of an entry names on disk.
SidecarOf(entry) ==
    NodeAt(ChildrenOf(PhotosDir, entry.json_path[1].album), entry.json_path[1].name)

\* The scenario of C1: the photos directory holds one album, and the album
\* holds a.jpg, its sidecar a.jpg.json with a title and a timestamp only, and
\* b.mp4, in any order.
BeachScenario ==
    /\ Len(PhotosDir) = 1
    /\ PhotosDir[1].kind = "dir"
    /\ {<<PhotosDir[1].children[i].name, PhotosDir[1].children[i].kind,
           PhotosDir[1].children[i].content>> : i \in 1..Len(PhotosDir[1].children)} =
           { << <<"a", "jpg">>, "file", Binary >>,
             << <<"a", "jpg", "json">>, "file", BeachSidecar >>,
             << <<"b", "mp4">>, "file", Binary >> }
    /\ Len(PhotosDir[1].children) = 3

BeachMetadata ==
    Metadata(Some(fromtimestamp(1686839400)), None, None, Some("Beach"), None, None)

\* C1: after the scan of the scenario's export and the normalizing of every
\* sidecar found, the media set has exactly 2 entries, exactly one of which
\* carries metadata (title "Beach", the timestamp 1686839400) while the other
\* carries none, and the statistics are total 2, with_json 1, without_json 1,
\* photos 1, videos 1.
C1_EndToEndBeachScenario ==
    (pc = "done" /\ BeachScenario) =>
        /\ Len(all_media) = 2
        /\ Cardinality({i \in 1..Len(all_media) : all_media[i].metadata # None}) = 1
        /\ \E i \in 1..Len(all_media) : all_media[i].metadata = Some(BeachMetadata)
        /\ \E i \in 1..Len(all_media) : all_media[i].metadata = None
        /\ stats.total_files = 2
        /\ stats.files_with_json = 1
        /\ stats.files_without_json = 1
        /\ Len(stats.albums) = 1
        /\ stats.albums[1].value =
               [total_files |-> 2, with_json |-> 1, without_json |-> 1, photos |-> 1, videos |-> 1]

\* The resolver's candidates for a media name with an extension, written out:
\* the name followed by each suffix of JSON_SUFFIXES, then the name with its
\* extension replaced by json, then the stem followed by json.
ClaimedCandidates(name) ==
    << name \o <<"json">>,
       name \o <<"supplemental-metadata", "json">>,
       name \o <<"jpg", "json">>,
       name \o <<"png", "json">>,
       name \o <<"mp4", "json">>,
       name \o <<"supplemental-met", "json">>,
       name \o <<"supplemental-metad", "json">>,
       SubSeq(name, 1, Len(name) - 1) \o <<"json">>,
       SubSeq(name, 1, Len(name) - 1) \o <<"json">> >>

Broken(node) == node.kind # "file" \/ node.content.kind \in {"unreadable", "malformed"}

BrokenNodes ==
    {Node("none", NoContent), Node("dir", NoContent),
     Node("file", [kind |-> "unreadable", obj |-> <<>>]),
     Node("file", [kind |-> "malformed", obj |-> <<>>])}

\* C7: for a path that is missing, not a regular file, unreadable or
\* malformed the normalizer returns None and raises nothing; the consumer loop
\* never aborts, leaves an entry with such a sidecar without metadata, and
\* when it ends it has visited every entry and attached to each entry that
\* has a sidecar what the normalizer returns for it.
C7_ParseFailureIsAbsence ==
    /\ \A n \in BrokenNodes : JSONParser_parse(n) = Ok(None)
    /\ pc = "failed" => google_photos_dir = 0
    /\ Scanned =>
          /\ error = NoError
          /\ \A i \in 1..Len(all_media) :
                (all_media[i].json_path # None /\ Broken(SidecarOf(all_media[i]))) =>
                    all_media[i].metadata = None
    /\ pc = "done" =>
          /\ idx = Len(all_media)
          /\ \A i \in 1..Len(all_media) :
                all_media[i].json_path # None =>
                    /\ JSONParser_parse(SidecarOf(all_media[i])).exc = ""
                    /\ all_media[i].metadata = JSONParser_parse(SidecarOf(all_media[i])).val[1]

\* The loop has ended; an entry whose sidecar is broken is without metadata
\* and a later entry carries the metadata of its sidecar.
C7_Witness ==
    /\ pc = "done"
    /\ \E i, j \in 1..Len(all_media) :
          /\ i < j
          /\ all_media[i].json_path # None
          /\ Broken(SidecarOf(all_media[i]))
          /\ all_media[i].metadata = None
          /\ all_media[j].metadata # None

\* The effective timestamp the claim gives an entry: the capture timestamp of
\* the attached record when there is a record and it has one, the
\* modification time of the file otherwise.
ClaimedEffective(e) ==
    IF e.metadata # None /\ e.metadata[1].datetime_original # None
    THEN e.metadata[1].datetime_original[1]
    ELSE [epoch |-> stat_st_mtime(ListingOf(e), e.path.name), tz |-> "local"]

\* C11: in every state, the effective timestamp of every entry of the media
\* set is the capture timestamp of its metadata record when a record is
\* attached and has one, and the modification time of the file otherwise; an
\* entry the scan resolved to no sidecar has the modification time.
C11_EffectiveTimestampFallback ==
    Scanned =>
        \A i \in 1..Len(all_media) :
            LET e == all_media[i]
            IN  /\ get_effective_datetime(ListingOf(e), e) = ClaimedEffective(e)
                /\ e.json_path = None =>
                       get_effective_datetime(ListingOf(e), e) =
                           [epoch |-> stat_st_mtime(ListingOf(e), e.path.name), tz |-> "local"]

\* The loop has ended with an entry whose record has a capture timestamp,
\* which is its effective timestamp, and an entry without sidecar, whose
\* effective timestamp is the modification time of its file.
C11_Witness ==
    /\ pc = "done"
    /\ \E i, k \in 1..Len(all_media) :
          /\ all_media[i].metadata # None
          /\ all_media[i].metadata[1].datetime_original = Some(fromtimestamp(1686839400))
          /\ get_effective_datetime(ListingOf(all_media[i]), all_media[i]) = fromtimestamp(1686839400)
          /\ all_media[k].json_path = None
          /\ all_media[k].metadata = None
          /\ get_effective_datetime(ListingOf(all_media[k]), all_media[k]).tz = "local"

\* The names of the directories directly under the export root, in iteration order.
RootSubdirectories ==
    LET dirsOnly == SelectSeq(fs.top, LAMBDA d : d.kind = "dir")
    IN  [i \in 1..Len(dirsOnly) |-> dirsOnly[i].name]

RootHasDir(n) == \E i \in 1..Len(fs.top) : fs.top[i].name = n /\ fs.top[i].kind = "dir"

\* C14: once the scanner has been constructed or has failed: a missing root
\* gives FileNotFoundError; a root directory without a directory named
\* Google Photos, Google Foto or Photos gives the ValueError that lists
\* exactly the root's subdirectories; after a failure no album was scanned
\* and there is no media set and no statistics; otherwise the photos
\* directory is the first of the three names, in that order, that is a
\* directory under the root.
C14_StructuralFailuresAbort ==
    pc \in {"constructed", "failed", "loop", "done"} =>
        /\ fs.root = "none" => (pc = "failed" /\ error.exc = "FileNotFoundError")
        /\ fs.root = "file" => pc = "failed"
        /\ (fs.root = "dir" /\ ~RootHasDir("Google Photos") /\ ~RootHasDir("Google Foto")
               /\ ~RootHasDir("Photos")) =>
               /\ pc = "failed"
               /\ error.exc = "ValueError"
               /\ error.available = RootSubdirectories
        /\ pc = "failed" => (google_photos_dir = 0 /\ all_media = <<>> /\ stats = <<>>)
        /\ (fs.root = "dir" /\ (RootHasDir("Google Photos") \/ RootHasDir("Google Foto")
                                  \/ RootHasDir("Photos"))) =>
               /\ pc # "failed"
               /\ google_photos_dir \in 1..Len(fs.top)
               /\ fs.top[google_photos_dir].kind = "dir"
               /\ fs.top[google_photos_dir].name =
                      IF RootHasDir("Google Photos") THEN "Google Photos"
                      ELSE IF RootHasDir("Google Foto") THEN "Google Foto"
                      ELSE "Photos"

\* The construction failed on a root that holds the directory Drive and a
\* regular file named Photos: the error lists Drive, and nothing was scanned.
C14_Witness ==
    /\ pc = "failed"
    /\ fs.root = "dir"
    /\ error = [exc |-> "ValueError", available |-> <<"Drive">>]
    /\ \E i \in 1..Len(fs.top) : fs.top[i].name = "Photos" /\ fs.top[i].kind = "file"
    /\ all_media = <<>>
    /\ stats = <<>>

---------------------------------------------------------------------------
(* A MediaFile object on its own: its construction and its setters *)

\* The album the object's paths lie in.
EntryListings ==
    { << File(<<"a", "jpg">>, "file", Binary, 1700000001),
         File(<<"a", "jpg", "json">>, "file", ZeroGeoSidecar, 1700000002),
         File(<<"c", "JPG">>, "file", Binary, 1700000003),
         File(<<"d", "mp4">>, "dir", NoContent, 1700000004),
         File(<<"notes", "txt">>, "file", Binary, 1700000005),
         File(<<"README">>, "file", Binary, 1700000006),
         File(<<"sub">>, "dir", NoContent, 1700000007) >>,
      << File(<<"b", "mp4">>, "file", Binary, 1700000008),
         File(<<"b", "json">>, "file", UndatedSidecar, 1700000009) >> }

\* The names handed to the constructor: those of the listing and missing ones.
EntryNames ==
    { <<"a", "jpg">>, <<"c", "JPG">>, <<"b", "mp4">>, <<"d", "mp4">>, <<"notes", "txt">>,
      <<"README">>, <<"sub">>, <<"z", "jpg">>, <<"z", "txt">> }

\* The sidecar names handed to the constructor and to the setter.
EntryJsonNames ==
    { <<"a", "jpg", "json">>, <<"b", "json">>, <<"sub">>, <<"missing", "json">> }

EntryJsonPaths == {None} \cup {Some(Path("Trip2023", n)) : n \in EntryJsonNames}

EntryMetadatas ==
    { None,
      Some(Metadata(Some(fromtimestamp(1686839400)), None, None, Some("Beach"), None, None)),
      Some(Metadata(None, None, None, None, None, None)),
      Some(Metadata(None, Some([latitude |-> 45, longitude |-> -100, altitude |-> None]),
                    None, None, None, None)),
      Some(Metadata(None, None, Some("At the beach"), None, None, None)),
      Some(Metadata(None, None, None, Some(""), None, None)),
      Some(Metadata(None, None, None, None, Some("Canon"), None)),
      Some(Metadata(None, None, None, None, None, Some("EOS R5"))),
      Some([title |-> "Beach"]) }

EntryFiles == fs.top[1].children[1].children

InitEntry ==
    /\ \E l \in EntryListings :
          fs = [root |-> "dir",
                top |-> <<Dir("Google Photos", "dir", <<Dir("Trip2023", "dir", l)>>)>>]
    /\ pc = "idle"
    /\ google_photos_dir = 0
    /\ error = NoError
    /\ all_media = <<>>
    /\ stats = <<>>
    /\ idx = 0
    /\ previous = None
    /\ lastSort = None
    /\ IdleEntry
    /\ IdleParse
    /\ IdleMerge
    /\ IdleGps

\* media_file = MediaFile(path, json_path)
NewMediaFile ==
    /\ lastCall = NoCall
    /\ \E name \in EntryNames, json_path \in EntryJsonPaths :
          LET r == MediaFile(EntryFiles, "Trip2023", name, json_path)
          IN  /\ media_file' = r.val
              /\ lastCall' = [op |-> "init", exc |-> r.exc, before |-> None,
                              value |-> <<Path("Trip2023", name), json_path>>]
    /\ UNCHANGED <<scanVars, parseVars, mergeVars, gpsVars>>

\* media_file.json_path = value
SetJsonPath ==
    /\ media_file # None
    /\ \E value \in EntryJsonPaths :
          LET r == set_json_path(EntryFiles, media_file[1], value)
          IN  /\ media_file' = IF r.exc = "" THEN r.val ELSE media_file
              /\ lastCall' = [op |-> "json_path", exc |-> r.exc, before |-> media_file,
                              value |-> <<value>>]
    /\ UNCHANGED <<scanVars, parseVars, mergeVars, gpsVars>>

\* media_file.metadata = value
SetMetadata ==
    /\ media_file # None
    /\ \E value \in EntryMetadatas :
          LET r == set_metadata(media_file[1], value)
          IN  /\ media_file' = IF r.exc = "" THEN r.val ELSE media_file
              /\ lastCall' = [op |-> "metadata", exc |-> r.exc, before |-> media_file,
                              value |-> <<value>>]
    /\ UNCHANGED <<scanVars, parseVars, mergeVars, gpsVars>>

NextEntry == NewMediaFile \/ SetJsonPath \/ SetMetadata

SpecEntry == InitEntry /\ [][NextEntry]_vars

---------------------------------------------------------------------------
(* Claims about a MediaFile object, checked under SpecEntry *)

\* C12: the sidecar path of an entry, when it is not None, names something
\* that existed when it was set, by the constructor or by the setter (the tree
\* never changes, so it still exists); setting a path that does not exist
\* fails with FileNotFoundError and leaves the entry as it was.
C12_SidecarPathValidatedWhenSet ==
    /\ (media_file # None /\ media_file[1].json_path # None) =>
           Exists(EntryFiles, media_file[1].json_path[1].name)
    /\ (lastCall.op = "json_path" /\ lastCall.value[1] # None
           /\ ~Exists(EntryFiles, lastCall.value[1][1].name)) =>
           /\ lastCall.exc = "FileNotFoundError"
           /\ media_file = lastCall.before

\* The lower-cased extension of a name is a photo or a video extension.
ClaimedSupported(name) ==
    /\ HasSuffix(name)
    /\ lower(name[Len(name)]) \in
           {"jpg", "jpeg", "png", "gif", "heic", "heif", "webp", "bmp", "tiff",
            "mp4", "mov", "avi", "mkv", "webm", "m4v", "3gp", "wmv"}

\* C13: constructing an entry fails with FileNotFoundError when the path does
\* not exist, fails when it exists and is not a regular file, fails with
\* ValueError (unsupported type) when the lower-cased extension is neither a
\* photo nor a video extension, and succeeds in every other case with the
\* path as given; no later operation changes the entry's path.
C13_ConstructionIsValidating ==
    /\ lastCall.op = "init" =>
          LET path == lastCall.value[1]
              node == NodeAt(EntryFiles, path.name)
          IN  /\ node.kind = "none" => (lastCall.exc = "FileNotFoundError" /\ media_file = None)
              /\ node.kind = "dir" => (lastCall.exc # "" /\ media_file = None)
              /\ (node.kind = "file" /\ ~ClaimedSupported(path.name)) =>
                     (lastCall.exc = "ValueError" /\ media_file = None)
              /\ (node.kind = "file" /\ ClaimedSupported(path.name)) =>
                     (lastCall.exc = "" /\ media_file # None /\ media_file[1].path = path)
    /\ lastCall.op \in {"json_path", "metadata"} =>
          /\ media_file # None
          /\ media_file[1].path = lastCall.before[1].path

\* An entry constructed for c.JPG, whose sidecar path was then set: its path
\* is still c.JPG.
C13_Witness ==
    /\ lastCall.op = "json_path"
    /\ lastCall.exc = ""
    /\ lastCall.before[1].json_path = None
    /\ media_file[1].json_path # None
    /\ media_file[1].path = Path("Trip2023", <<"c", "JPG">>)

---------------------------------------------------------------------------
(* Claims about the albums, the accumulation and the statistics, checked    *)
(* under Spec                                                               *)

\* A name ends with one of the sidecar suffixes, written out.
ClaimedSidecarName(name) ==
    \E sfx \in { <<"json">>, <<"supplemental-metadata", "json">>, <<"jpg", "json">>,
                 <<"png", "json">>, <<"mp4", "json">>, <<"supplemental-met", "json">>,
                 <<"supplemental-metad", "json">> } :
        /\ Len(name) > Len(sfx)
        /\ SubSeq(name, Len(name) - Len(sfx) + 1, Len(name)) = sfx

\* The files of an album the claim makes entries of.
ClaimedMember(f) ==
    /\ f.kind = "file"
    /\ f.name \notin { <<"metadata", "json">>, <<"Metadata", "json">>,
                       <<"print-subscriptions", "json">>, <<"shared_album_comments", "json">> }
    /\ ~ClaimedSidecarName(f.name)
    /\ ClaimedSupported(f.name)

\* The sidecar path the resolver gives a file of an album.
ResolvedIn(d, name) ==
    IF find_json_for_media(d.children, name) = None THEN None
    ELSE Some(Path(d.name, find_json_for_media(d.children, name)[1]))

\* C15: for every album directory, scan_album raises nothing and returns one
\* entry for each direct child that is a regular file, is not an ignored
\* name, does not end with a sidecar suffix and has a supported extension, in
\* iteration order and nothing else, each entry with the resolver's result as
\* sidecar path; the entries of the media set that lie in the album are these.
C15_AlbumScanMembership ==
    google_photos_dir # 0 =>
        /\ pc # "failed"
        /\ \A a \in 1..Len(PhotosDir) :
              PhotosDir[a].kind = "dir" =>
                  LET d == PhotosDir[a]
                      members == SelectSeq(d.children, ClaimedMember)
                      got == scan_album(d)
                      mine == SelectSeq(all_media, LAMBDA e : e.path.album = d.name)
                  IN  /\ got.exc = ""
                      /\ Len(got.val[1]) = Len(members)
                      /\ \A i \in 1..Len(members) :
                            /\ got.val[1][i].path = Path(d.name, members[i].name)
                            /\ got.val[1][i].json_path = ResolvedIn(d, members[i].name)
                      /\ Scanned =>
                            /\ Len(mine) = Len(members)
                            /\ \A i \in 1..Len(members) :
                                  /\ mine[i].path = Path(d.name, members[i].name)
                                  /\ mine[i].json_path = ResolvedIn(d, members[i].name)

\* An album that lists the unsupported notes.txt and a subdirectory before a
\* media file with a sidecar: the media set holds the media file, with its
\* sidecar, and neither of the other two.
C15_Witness ==
    /\ Scanned
    /\ \E a \in 1..Len(PhotosDir) :
          /\ PhotosDir[a].kind = "dir"
          /\ \E i, j, k \in 1..Len(PhotosDir[a].children) :
                /\ i < k
                /\ j < k
                /\ PhotosDir[a].children[i].name = <<"notes", "txt">>
                /\ PhotosDir[a].children[j].kind = "dir"
                /\ \E m \in 1..Len(all_media) :
                      /\ all_media[m].path = Path(PhotosDir[a].name, PhotosDir[a].children[k].name)
                      /\ all_media[m].json_path # None
          /\ \A m \in 1..Len(all_media) :
                all_media[m].path.name \notin {<<"notes", "txt">>, <<"sub">>}

\* The keys of an album's statistics that count entries of the media set.
EntryCountKeys == {"total_files", "with_json", "without_json", "photos", "videos"}

RECURSIVE SumOfKeys(_, _)
SumOfKeys(r, keys) ==
    IF keys = {} THEN 0
    ELSE LET k == CHOOSE x \in keys : TRUE IN r[k] + SumOfKeys(r, keys \ {k})

\* The number of skipped items the statistics report for an album: the counts
\* of its record that are not counts of entries.
ReportedSkipped(name) ==
    LET i == CHOOSE j \in 1..Len(stats.albums) : stats.albums[j].key = name
        r == stats.albums[i].value
    IN  SumOfKeys(r, (DOMAIN r) \ EntryCountKeys)

\* The regular files of an album that are neither the payload nor the sidecar
\* of an entry of the media set.
Unrepresented(d) ==
    {i \in 1..Len(d.children) :
        /\ d.children[i].kind = "file"
        /\ ~\E m \in 1..Len(all_media) :
               \/ all_media[m].path = Path(d.name, d.children[i].name)
               \/ all_media[m].json_path = Some(Path(d.name, d.children[i].name))}

\* C16: after a scan that completed, every regular file directly inside an
\* album is represented by an entry of the media set (as its payload or its
\* sidecar) or is counted by the statistics as a skipped item: the number of
\* files that are not represented is the number of skipped items reported.
C16_NoSilentDataLoss ==
    Scanned =>
        \A a \in 1..Len(PhotosDir) :
            PhotosDir[a].kind = "dir" =>
                Cardinality(Unrepresented(PhotosDir[a])) = ReportedSkipped(PhotosDir[a].name)

\* The media sets scan_album returns for the albums, one after the other.
RECURSIVE ConcatScans(_)
ConcatScans(folders) ==
    IF folders = <<>> THEN <<>>
    ELSE scan_album(Head(folders)).val[1] \o ConcatScans(Tail(folders))

RECURSIVE SumTotalFiles(_)
SumTotalFiles(items) ==
    IF items = <<>> THEN 0 ELSE Head(items).value.total_files + SumTotalFiles(Tail(items))

\* C17: after parse, the media set is the concatenation, in the order the
\* albums are met, of what scan_album returns for every directory directly
\* under the photos directory (the consumer loop only adds metadata);
\* albums_scanned is the number of per-album records, total_files is the size
\* of the media set and the sum of the per-album total_files, and with_json
\* plus without_json is total_files, globally and for each album.
C17_AccumulationAndStatistics ==
    Scanned =>
        LET folders == SelectSeq(PhotosDir, LAMBDA d : d.kind = "dir")
            expected == ConcatScans(folders)
        IN  /\ Len(all_media) = Len(expected)
            /\ \A i \in 1..Len(expected) :
                  /\ all_media[i].path = expected[i].path
                  /\ all_media[i].json_path = expected[i].json_path
            /\ stats.albums_scanned = Len(stats.albums)
            /\ stats.albums_scanned = Len(folders)
            /\ \A i \in 1..Len(folders) : stats.albums[i].key = folders[i].name
            /\ stats.total_files = Len(all_media)
            /\ stats.total_files = SumTotalFiles(stats.albums)
            /\ stats.files_with_json + stats.files_without_json = stats.total_files
            /\ \A i \in 1..Len(stats.albums) :
                  /\ stats.albums[i].value.total_files = Len(scan_album(folders[i]).val[1])
                  /\ stats.albums[i].value.with_json + stats.albums[i].value.without_json =
                         stats.albums[i].value.total_files

\* Two albums were scanned, the first gave two entries and the second one:
\* the media set holds them in that order and the totals are 3 = 2 + 1.
C17_Witness ==
    /\ Scanned
    /\ Len(stats.albums) = 2
    /\ stats.albums[1].value.total_files = 2
    /\ stats.albums[2].value.total_files = 1
    /\ stats.total_files = 3
    /\ all_media[1].path.album = stats.albums[1].key
    /\ all_media[2].path.album = stats.albums[1].key
    /\ all_media[3].path.album = stats.albums[2].key
    /\ stats.files_with_json = 1
    /\ stats.files_without_json = 2

---------------------------------------------------------------------------
(* A GPSCoordinates object on its own: its construction and its output *)

GpsLatitudes == {-91, -90, -45, 0, 45, 90, 91}

GpsLongitudes == {-181, -180, -100, 0, 100, 180, 181}

GpsAltitudes == {None, Some(12), Some(-5)}

InitGps ==
    /\ gpsArgs \in [latitude : GpsLatitudes, longitude : GpsLongitudes, altitude : GpsAltitudes]
    /\ gpsMade = NoGps
    /\ exif = None
    /\ IdleScan
    /\ IdleParse
    /\ IdleMerge
    /\ IdleEntry

\* gps = GPSCoordinates(latitude, longitude, altitude)
NewGps ==
    /\ ~gpsMade.done
    /\ LET r == GPSCoordinates(Some(gpsArgs.latitude), Some(gpsArgs.longitude), gpsArgs.altitude)
       IN  gpsMade' = [done |-> TRUE, exc |-> r.exc, val |-> r.val, writes |-> 0]
    /\ UNCHANGED <<gpsArgs, exif, scanVars, parseVars, mergeVars, entryVars>>

\* Metadata(gps_coordinates=gps).to_exif_dict()
ToExifDict ==
    /\ gpsMade.done
    /\ gpsMade.exc = ""
    /\ exif = None
    /\ exif' = Some(to_exif_dict_gps(Metadata(None, gpsMade.val, None, None, None, None)))
    /\ UNCHANGED <<gpsArgs, gpsMade, scanVars, parseVars, mergeVars, entryVars>>

\* At most MaxWrites attribute writes are made on the object.
MaxWrites == 1

\* The values written: in range and out of range.
WrittenValues ==
    {<<"latitude", -45>>, <<"latitude", 200>>, <<"longitude", 100>>, <<"longitude", -300>>,
     <<"altitude", None>>, <<"altitude", Some(12)>>}

\* gps.latitude = value, gps.longitude = value or gps.altitude = value
SetGpsAttribute ==
    /\ gpsMade.done
    /\ gpsMade.exc = ""
    /\ gpsMade.writes < MaxWrites
    /\ \E w \in WrittenValues :
          gpsMade' = [gpsMade EXCEPT !.val = Some(GPSCoordinates_setattr(gpsMade.val[1], w[1], w[2])),
                                     !.writes = @ + 1]
    /\ UNCHANGED <<gpsArgs, exif, scanVars, parseVars, mergeVars, entryVars>>

NextGps == NewGps \/ ToExifDict \/ SetGpsAttribute

SpecGps == InitGps /\ [][NextGps]_vars

---------------------------------------------------------------------------
(* Claims about GPSCoordinates, checked under SpecGps *)

\* C19: the construction succeeds exactly when latitude is in [-90, 90] and
\* longitude is in [-180, 180], the bounds included, whatever the altitude;
\* the object then holds the three values as given.
C19_GpsRangeValidation ==
    gpsMade.done =>
        /\ gpsMade.exc = "" <=>
               (/\ -90 <= gpsArgs.latitude /\ gpsArgs.latitude <= 90
                /\ -180 <= gpsArgs.longitude /\ gpsArgs.longitude <= 180)
        /\ (gpsMade.exc = "" /\ gpsMade.writes = 0) => gpsMade.val = Some(gpsArgs)
        /\ gpsMade.exc # "" => (gpsMade.exc = "ValueError" /\ gpsMade.val = None)

\* The construction succeeded on the bounds: latitude 90, longitude -180.
C19_Witness ==
    /\ gpsMade.done
    /\ gpsMade.exc = ""
    /\ gpsArgs.latitude = 90
    /\ gpsArgs.longitude = -180
    /\ gpsMade.val = Some(gpsArgs)

\* C20: for a valid coordinate, latitude_ref is N exactly when latitude >= 0
\* and S otherwise, longitude_ref is E exactly when longitude >= 0 and W
\* otherwise; to_dict and the EXIF mapping carry the absolute values of
\* latitude and longitude with these letters.
C20_HemisphereReferences ==
    (/\ gpsMade.done
     /\ gpsMade.exc = ""
     /\ -90 <= gpsMade.val[1].latitude /\ gpsMade.val[1].latitude <= 90
     /\ -180 <= gpsMade.val[1].longitude /\ gpsMade.val[1].longitude <= 180) =>
        LET g == gpsMade.val[1]
            latRef == IF g.latitude >= 0 THEN "N" ELSE "S"
            lonRef == IF g.longitude >= 0 THEN "E" ELSE "W"
            latAbs == IF g.latitude >= 0 THEN g.latitude ELSE 0 - g.latitude
            lonAbs == IF g.longitude >= 0 THEN g.longitude ELSE 0 - g.longitude
        IN  /\ latitude_ref(g) = latRef
            /\ longitude_ref(g) = lonRef
            /\ to_dict(g).latitude = latAbs
            /\ to_dict(g).longitude = lonAbs
            /\ to_dict(g).latitude_ref = latRef
            /\ to_dict(g).longitude_ref = lonRef
            /\ (exif # None /\ gpsMade.writes = 0) =>
                  /\ exif[1].GPSLatitude = latAbs
                  /\ exif[1].GPSLongitude = lonAbs
                  /\ exif[1].GPSLatitudeRef = latRef
                  /\ exif[1].GPSLongitudeRef = lonRef

\* The EXIF mapping of the coordinate (0, -100): latitude 0 with N, longitude
\* 100 with W.
C20_Witness ==
    /\ exif # None
    /\ gpsMade.writes = 0
    /\ gpsMade.val[1].latitude = 0
    /\ gpsMade.val[1].longitude = -100
    /\ exif[1].GPSLatitude = 0
    /\ exif[1].GPSLatitudeRef = "N"
    /\ exif[1].GPSLongitude = 100
    /\ exif[1].GPSLongitudeRef = "W"

\* C21: a GPS coordinate that exists holds the latitude, the longitude and
\* the altitude it was constructed with, and so has latitude in [-90, 90] and
\* longitude in [-180, 180], whatever was done with it since.
C21_GpsCoordinatesImmutable ==
    (gpsMade.done /\ gpsMade.exc = "") =>
        /\ gpsMade.val = Some(gpsArgs)
        /\ -90 <= gpsMade.val[1].latitude /\ gpsMade.val[1].latitude <= 90
        /\ -180 <= gpsMade.val[1].longitude /\ gpsMade.val[1].longitude <= 180

\* C22: the metadata record attached to an entry is reported valid, and the
\* entry reports that it has metadata, exactly when at least one of the six
\* fields (timestamp, GPS coordinates, description, title, camera make, camera
\* model) is present; a record with all six absent is invalid.
C22_ValidIffSomeFieldPresent ==
    (media_file # None /\ media_file[1].metadata # None) =>
        LET metadata == media_file[1].metadata[1]
            present == \E f \in MetadataFields : metadata[f] # None
        IN  /\ is_valid(metadata) <=> present
            /\ has_metadata(media_file[1]) <=> present

\* The number of times an entry occurs in a list.
Occurrences(files, e) == Cardinality({i \in 1..Len(files) : files[i] = e})

\* The instant of the effective timestamp of the i-th entry of the media set.
EffectiveInstant(i) == get_effective_datetime(ListingOf(all_media[i]), all_media[i]).epoch

\* C23: sort_by_date on a media set built by add, extend and metadata
\* attachments completes without error and leaves the same entries, each as
\* often as before, in order of non-decreasing effective timestamp
\* (non-increasing when reversed), also when some timestamps come from
\* sidecars and others from modification times.
C23_SortByDateOrdersTheSet ==
    pc = "sorted" =>
        /\ error = NoError
        /\ Len(all_media) = Len(lastSort[1].before)
        /\ \A i \in 1..Len(all_media) :
               Occurrences(all_media, all_media[i]) = Occurrences(lastSort[1].before, all_media[i])
        /\ \A i, j \in 1..Len(all_media) :
               i < j => IF lastSort[1].reverse
                        THEN EffectiveInstant(i) >= EffectiveInstant(j)
                        ELSE EffectiveInstant(i) <= EffectiveInstant(j)

\* C24: every entry of the media set that scan_album and parse produced is a
\* photo or a video, never of unknown kind; in the statistics of every album
\* photos + videos = total_files; and the photo filter and the video filter
\* split the media set: every entry is in exactly one of them.
C24_EveryEntryIsPhotoOrVideo ==
    (Scanned \/ pc = "sorted") =>
        /\ \A i \in 1..Len(all_media) :
              /\ media_type(all_media[i].path.name) \in {"photo", "video"}
              /\ is_photo(all_media[i]) # is_video(all_media[i])
        /\ \A i \in 1..Len(stats.albums) :
              stats.albums[i].value.photos + stats.albums[i].value.videos =
                  stats.albums[i].value.total_files
        /\ Len(get_photos(all_media)) + Len(get_videos(all_media)) = Len(all_media)
        /\ \A i \in 1..Len(get_photos(all_media)) :
              \A j \in 1..Len(get_videos(all_media)) :
                  get_photos(all_media)[i] # get_videos(all_media)[j]

\* An album that holds a photo, a video and notes.txt was scanned: its
\* statistics count one photo and one video, two files in all.
C24_Witness ==
    /\ Scanned
    /\ Len(stats.albums) >= 1
    /\ Exists(ChildrenOf(PhotosDir, stats.albums[1].key), <<"notes", "txt">>)
    /\ stats.albums[1].value.photos = 1
    /\ stats.albums[1].value.videos = 1
    /\ stats.albums[1].value.total_files = 2
    /\ Len(get_photos(all_media)) >= 1
    /\ Len(get_videos(all_media)) >= 1

=============================================================================
